---- MODULE Spec2Model ----
(***************************************************************************)
(* mod_gemini_live.c: the audio relay between a call and the sidecar       *)
(* socket.  One relay context (gemini_ctx_t) on call "a", a second live    *)
(* call "b" that never runs the relay, and an identifier "zz" of no call.  *)
(*                                                                         *)
(* Threads: the socket thread (gemini_socket_thread), the host's media     *)
(* thread (gemini_media_callback), the API thread (uuid_gemini_flush,      *)
(* uuid_gemini_stop) and the host (hangup, session destroy, clock).        *)
(*                                                                         *)
(* Scale.  A queue of 48000*2*90 bytes cannot be enumerated, so the model  *)
(* keeps the code's formulas and shrinks their inputs: session rates of    *)
(* 1000 and 2000 Hz give frames of 4 bytes, received chunks of 48..96      *)
(* bytes at 24 kHz give 2..8 bytes after resampling, and the queue         *)
(* capacity GEMINI_QUEUE_MAX_SIZE is a bound of the model (a few frames).  *)
(* A byte of resampled audio is its position in the stream of resampled    *)
(* bytes (1, 2, 3, ...), so order and duplication are visible.             *)
(***************************************************************************)
EXTENDS Integers, Sequences, FiniteSets, TLC

\* ------------------------------------------------------------ constants
GEMINI_INPUT_RATE == 16000
GEMINI_OUTPUT_RATE == 24000
GEMINI_DISCARD_DURATION_US == 500000

\* (48000 * 2 * 90) in the source; scaled, see the header.
GEMINI_QUEUE_MAX_SIZE == 8

\* sizeof(recv_buf)
RECV_BUF_SIZE == 8192

\* ------------------------------------------------------------ bounds
\* chunks the socket delivers in one run
MaxRecv == 2
\* chunks the socket delivers in a run of SpecLife
MaxRecvLife == 1
\* clock readings after the first
MaxTicks == 3
\* runs of gemini_live on a call that already has a relay
MaxRestarts == 1
\* captured frames the media thread hands to READ_REPLACE in one run
MaxUplink == 2

\* the clock advances by half a discard window, so that a reading can fall
\* strictly inside the window, exactly on the deadline and after it
TickUs == GEMINI_DISCARD_DURATION_US \div 2

\* read_impl of the call: actual_samples_per_second, microseconds_per_packet
SessionImpls ==
    { [rate |-> 2000, us |-> 1000], [rate |-> 1000, us |-> 2000] }

\* byte counts switch_socket_recv returns (24 kHz, 16-bit)
RecvLens == {72, 96}

UUIDS == {"a", "b", "zz"}

\* the steps of gemini_live_start that can fail, in the order of the code
StartSteps ==
    << "audio_queue", "read_resampler", "write_resampler", "sockaddr", "socket",
       "connect", "codec", "thread", "bug" >>

\* what gemini_live_start logs when every step succeeded
ESTABLISHED == "Gemini Live audio pipe established"

\* gemini_live_start has created the thread and not yet added the bug
SPAWNED == "thread created"

NULL == "NULL"
ERR_USAGE == "-ERR Usage"
ERR_NOT_FOUND == "-ERR Session not found"
ERR_NOT_ACTIVE == "-ERR Gemini not active on session"
OK == "+OK"

VARIABLES
    \* host
    now,            \* switch_time_now(), microseconds
    call,           \* call "a": "ready" | "hangup" | "destroyed"
    private,        \* switch_channel_get_private(channel, GEMINI_PRIVATE) of "a"
    attached,       \* the media bug is in the session's bug list
    \* gemini_ctx_t
    ctx,            \* the record of the context's scalar fields
    audio_queue,    \* switch_buffer_t contents, head first
    write_frame_data,
    mutex,          \* holder of ctx->mutex: NULL | "sock" | "bug" | "api"
    \* socket
    sock_state,     \* "none" | "open" | "closed"
    \* threads
    pc,             \* gemini_socket_thread
    chunk,          \* its pcm_out / bytes_out
    bug_pc,         \* gemini_media_callback in the media thread
    api_pc,         \* uuid_gemini_flush_function
    reply,          \* what the last API command wrote to its stream
    \* history
    nrecv,          \* chunks received
    nbytes,         \* resampled bytes produced so far
    injected,       \* bytes handed to switch_core_session_write_frame, in order
    dropped,        \* bytes thrown away, by cause: overflow, flush, discard
    path,           \* how the chunk in hand passed the discard check
    it_queue,       \* audio_queue when the chunk in hand was received
    closes,         \* teardown calls made: socket, resamplers, codec, detach
    written,        \* SpecQueue: the writes since the last read or clear
    start_log,      \* the last run of gemini_live: the step that failed, or
                    \* ESTABLISHED
    old,            \* the contexts earlier runs of gemini_live left on the call
    uplink,         \* captured frames READ_REPLACE gave to the socket: sent, dropped
    hist            \* what the socket thread and the flush command have done:
                    \* see NoHist

vars == << now, call, private, attached, ctx, audio_queue, write_frame_data,
           mutex, sock_state, pc, chunk, bug_pc, api_pc, reply, nrecv, nbytes,
           injected, dropped, path, it_queue, closes, written, start_log, old,
           uplink, hist >>

\* ------------------------------------------------------------ helpers
Min(a, b) == IF a < b THEN a ELSE b

Range(s) == { s[i] : i \in 1..Len(s) }

\* the bytes k+1 .. k+n of the resampled stream
Fresh(k, n) == [ i \in 1..n |-> k + i ]

StrictlyIncreasing(s) == \A i \in 1..(Len(s) - 1) : s[i] < s[i + 1]

TakeLast(s, n) == SubSeq(s, Len(s) - Min(n, Len(s)) + 1, Len(s))

\* ctx->read_ptime = read_impl.microseconds_per_packet / 1000
ReadPtime(us) == us \div 1000

\* ctx->session_frame_bytes = (session_rate / 1000) * read_ptime * sizeof(int16_t)
SessionFrameBytes(rate, ptime) == (rate \div 1000) * ptime * 2

\* switch_resample_process: to_len for samples_in samples
ResampleToLen(samples_in, from_rate, to_rate) ==
    (samples_in * to_rate) \div from_rate

\* bytes_out of one received chunk
BytesOut(recv_len, write_resampler, session_rate) ==
    IF write_resampler # NULL
    THEN ResampleToLen(recv_len \div 2, GEMINI_OUTPUT_RATE, session_rate) * 2
    ELSE recv_len

\* a clear that leaves the bytes in the buffer
switch_buffer_keep(q) == q

\* switch_buffer_t
switch_buffer_inuse(q) == Len(q)
switch_buffer_zero(q) == << >>
switch_buffer_toss(q, n) == SubSeq(q, Min(n, Len(q)) + 1, Len(q))
switch_buffer_write(q, data) == q \o data
\* a read that leaves the bytes in the buffer
switch_buffer_peek(q, n) == << SubSeq(q, 1, Min(n, Len(q))), q >>

\* << the bytes read, the buffer left >>
switch_buffer_read(q, n) ==
    << SubSeq(q, 1, Min(n, Len(q))), SubSeq(q, Min(n, Len(q)) + 1, Len(q)) >>

\* the overflow test without the size of the chunk
ExcessIgnoresChunk(inuse, bytes_out) ==
    IF inuse > GEMINI_QUEUE_MAX_SIZE THEN inuse - GEMINI_QUEUE_MAX_SIZE ELSE 0

\* "Push resampled audio to queue": the bytes to toss from the head
Excess(inuse, bytes_out) ==
    IF inuse + bytes_out > GEMINI_QUEUE_MAX_SIZE
    THEN (inuse + bytes_out) - GEMINI_QUEUE_MAX_SIZE
    ELSE 0

\* a push that keeps the old bytes and cuts the new chunk to the room left
PushChunkDropsNewest(q, data) ==
    switch_buffer_write(q,
        SubSeq(data, 1, Min(Len(data), GEMINI_QUEUE_MAX_SIZE - Len(q))))

\* "Push resampled audio to queue": toss the excess, then write
PushChunk(q, data) ==
    switch_buffer_write(
        switch_buffer_toss(q, Excess(switch_buffer_inuse(q), Len(data))), data)

\* ------------------------------------------------------------ initial state
NoCtx ==
    [ running |-> 0, sock |-> NULL, bug |-> NULL, flush_flag |-> 0,
      discard_until |-> 0, read_resampler |-> NULL, write_resampler |-> NULL,
      codec_ready |-> FALSE, session_rate |-> 0, read_ptime |-> 0,
      session_frame_bytes |-> 0, audio_queue |-> NULL ]

NoDropped == [ overflow |-> {}, flush |-> {}, discard |-> {} ]

\* on: the history is kept (the runs that start in InitObserved)
\* pace: what the socket thread did last since it read a frame from the
\*   queue: "none" before the first read, "read", "failed" (the injection
\*   failed), "received" (a chunk, after a failed injection), "slept"
\* at_flush: the bytes the queue held when the flush command last set the
\*   flag, until the queue is emptied
\* unserved: the flag was set and the queue has not been emptied since
\* last_obs: switch_time_now() when the socket thread last cleared the flag
\* rearmed: the socket thread has cleared the flag inside a discard window
NoHist ==
    [ on |-> FALSE, pace |-> "none", at_flush |-> {}, unserved |-> FALSE,
      last_obs |-> 0, rearmed |-> FALSE ]

\* the history after a step that would make it `new`
Rec(h, new) == IF h.on THEN new ELSE h

NoCloses == [ sock |-> 0, read_resampler |-> 0, write_resampler |-> 0,
              codec |-> 0, detach |-> 0 ]

InitRelay ==
    /\ now = TickUs
    /\ call = "ready"
    /\ private = NULL
    /\ attached = FALSE
    /\ ctx = NoCtx
    /\ audio_queue = << >>
    /\ write_frame_data = << >>
    /\ mutex = NULL
    /\ sock_state = "none"
    /\ pc = "none"
    /\ chunk = << >>
    /\ bug_pc = "idle"
    /\ api_pc = "idle"
    /\ reply = [cmd |-> "none", uuid |-> "none", text |-> "none"]
    /\ nrecv = 0
    /\ nbytes = 0
    /\ injected = << >>
    /\ dropped = NoDropped
    /\ path = "none"
    /\ it_queue = << >>
    /\ closes = NoCloses
    /\ written = << >>
    /\ start_log = "none"
    /\ old = << >>
    /\ uplink = [ sent |-> 0, dropped |-> 0 ]

Init == InitRelay /\ hist = NoHist

\* the same state, with the history of the pacer and of the flushes kept
InitObserved == InitRelay /\ hist = [NoHist EXCEPT !.on = TRUE]

\* ------------------------------------------------------------ host
\* switch_time_now() moves on
Tick ==
    /\ now < TickUs * (MaxTicks + 1)
    /\ now' = now + TickUs
    /\ UNCHANGED << call, private, attached, ctx, audio_queue, write_frame_data,
                    mutex, sock_state, pc, chunk, bug_pc, api_pc, reply, nrecv,
                    nbytes, injected, dropped, path, it_queue,
                    closes, written, start_log, old, uplink, hist >>

\* switch_channel_ready(ctx->channel)
switch_channel_ready == call = "ready"

\* switch_core_session_locate(uuid)
switch_core_session_locate(uuid) ==
    \/ uuid = "b"
    \/ uuid = "a" /\ call # "destroyed"

\* switch_channel_get_private(channel, GEMINI_PRIVATE)
switch_channel_get_private(uuid) == IF uuid = "a" THEN private ELSE NULL


\* ------------------------------------------------------------ start
\* gemini_live_start, every step succeeding: the context, the queue, the
\* resamplers the rates ask for, the connected socket, the codec, the thread,
\* the media bug and the registration on the channel
gemini_live_start ==
    /\ call = "ready"
    /\ pc = "none"
    /\ start_log = "none"
    /\ \E impl \in SessionImpls :
         ctx' = [ running |-> 1,
                  sock |-> "sock",
                  bug |-> "bug",
                  flush_flag |-> 0,
                  discard_until |-> 0,
                  read_resampler |->
                      IF impl.rate # GEMINI_INPUT_RATE THEN "resampler" ELSE NULL,
                  write_resampler |->
                      IF impl.rate # GEMINI_OUTPUT_RATE THEN "resampler" ELSE NULL,
                  codec_ready |-> TRUE,
                  session_rate |-> impl.rate,
                  read_ptime |-> ReadPtime(impl.us),
                  session_frame_bytes |->
                      SessionFrameBytes(impl.rate, ReadPtime(impl.us)),
                  audio_queue |-> "buffer" ]
    /\ sock_state' = "open"
    /\ pc' = "loop"
    /\ attached' = TRUE
    /\ private' = "ctx"
    /\ start_log' = ESTABLISHED
    /\ UNCHANGED << now, call, audio_queue, write_frame_data, mutex, chunk,
                    bug_pc, api_pc, reply, nrecv, nbytes, injected, dropped,
                    path, it_queue, closes, written, old, uplink, hist >>

\* the place of a step in the start sequence
StepNo(step) == CHOOSE i \in 1..Len(StartSteps) : StartSteps[i] = step

\* the step was taken, with success, before the step that fails
Done(step, fail) == StepNo(step) < StepNo(fail)

\* the context when step `fail` fails, before anything is released: what the
\* steps before it have allocated; running is back to 0 where it was set
StartCtxAt(impl, fail) ==
    [ running |-> 0,
      sock |-> IF Done("socket", fail) THEN "sock" ELSE NULL,
      bug |-> NULL,
      flush_flag |-> 0,
      discard_until |-> 0,
      read_resampler |->
          IF Done("read_resampler", fail) /\ impl.rate # GEMINI_INPUT_RATE
          THEN "resampler" ELSE NULL,
      write_resampler |->
          IF Done("write_resampler", fail) /\ impl.rate # GEMINI_OUTPUT_RATE
          THEN "resampler" ELSE NULL,
      codec_ready |-> Done("codec", fail),
      session_rate |-> impl.rate,
      read_ptime |-> ReadPtime(impl.us),
      session_frame_bytes |-> SessionFrameBytes(impl.rate, ReadPtime(impl.us)),
      audio_queue |-> IF Done("audio_queue", fail) THEN "buffer" ELSE NULL ]

\* the failures that leave through the error label; the earlier ones return
UsesErrorLabel(fail) == ~Done(fail, "sockaddr")

\* an error label that forgets the socket
StartErrorKeepsSocket(c) ==
    [ c EXCEPT !.read_resampler = NULL,
               !.write_resampler = NULL,
               !.codec_ready = FALSE,
               !.audio_queue = NULL ]

\* error: close the socket, destroy the resamplers, the codec and the queue
StartError(c) ==
    [ c EXCEPT !.sock = NULL,
               !.read_resampler = NULL,
               !.write_resampler = NULL,
               !.codec_ready = FALSE,
               !.audio_queue = NULL ]

\* the early returns: the queue fails, the read resampler fails, the write
\* resampler fails (this one destroys the read resampler first)
StartReturn(c, fail) ==
    IF fail = "write_resampler" THEN [c EXCEPT !.read_resampler = NULL] ELSE c

\* the context gemini_live_start leaves when step `fail` fails
StartFailCtx(impl, fail) ==
    IF UsesErrorLabel(fail)
    THEN StartError(StartCtxAt(impl, fail))
    ELSE StartReturn(StartCtxAt(impl, fail), fail)

\* the releases made between the context c and the context d
StartCalls(c, d) ==
    [ sock |-> IF c.sock # NULL /\ d.sock = NULL THEN 1 ELSE 0,
      read_resampler |->
          IF c.read_resampler # NULL /\ d.read_resampler = NULL THEN 1 ELSE 0,
      write_resampler |->
          IF c.write_resampler # NULL /\ d.write_resampler = NULL THEN 1 ELSE 0,
      codec |-> IF c.codec_ready /\ ~d.codec_ready THEN 1 ELSE 0,
      detach |-> 0 ]

\* the socket after a start that failed at `fail`: never created, or
\* created and still open, or created and closed
StartFailSock(impl, fail) ==
    IF ~Done("socket", fail) THEN "none"
    ELSE IF StartFailCtx(impl, fail).sock # NULL THEN "open"
    ELSE "closed"

\* gemini_live_start with a step that fails, on a call that has no context
\* yet.  When the bug cannot be added the thread is already running.
gemini_live_start_fails(fail) ==
    /\ call = "ready"
    /\ pc = "none"
    /\ start_log = "none"
    /\ \E impl \in SessionImpls :
         /\ ctx' = StartFailCtx(impl, fail)
         /\ sock_state' = StartFailSock(impl, fail)
         /\ closes' = StartCalls(StartCtxAt(impl, fail), StartFailCtx(impl, fail))
    /\ pc' = IF Done("thread", fail) THEN "loop" ELSE "none"
    /\ start_log' = fail
    /\ UNCHANGED << now, call, private, attached, audio_queue, write_frame_data,
                    mutex, chunk, bug_pc, api_pc, reply, nrecv, nbytes, injected,
                    dropped, path, it_queue, written, old, uplink, hist >>

\* gemini_live_start up to switch_thread_create: every step before it has
\* succeeded, running is 1 and the socket thread is started
gemini_live_start_spawned ==
    /\ call = "ready"
    /\ pc = "none"
    /\ start_log = "none"
    /\ \E impl \in SessionImpls :
         ctx' = [StartCtxAt(impl, "bug") EXCEPT !.running = 1]
    /\ sock_state' = "open"
    /\ pc' = "loop"
    /\ start_log' = SPAWNED
    /\ UNCHANGED << now, call, private, attached, audio_queue, write_frame_data,
                    mutex, chunk, bug_pc, api_pc, reply, nrecv, nbytes, injected,
                    dropped, path, it_queue, closes, written, old, uplink,
                    hist >>

\* switch_core_media_bug_add succeeds: the registration, and the return
gemini_live_start_bug_added ==
    /\ start_log = SPAWNED
    /\ ctx' = [ctx EXCEPT !.bug = "bug"]
    /\ attached' = TRUE
    /\ private' = "ctx"
    /\ start_log' = ESTABLISHED
    /\ UNCHANGED << now, call, audio_queue, write_frame_data, mutex,
                    sock_state, pc, chunk, bug_pc, api_pc, reply, nrecv, nbytes,
                    injected, dropped, path, it_queue, closes, written, old,
                    uplink, hist >>

\* switch_core_media_bug_add fails: running = 0 and the error label, taken
\* by the thread that runs gemini_live while the socket thread is where it
\* is; no lock is taken and the socket thread is not waited for
gemini_live_start_bug_fails ==
    /\ start_log = SPAWNED
    /\ ctx' = StartError([ctx EXCEPT !.running = 0])
    /\ sock_state' = IF ctx.sock # NULL THEN "closed" ELSE sock_state
    /\ closes' = StartCalls(ctx, StartError(ctx))
    /\ start_log' = "bug"
    /\ UNCHANGED << now, call, private, attached, audio_queue, write_frame_data,
                    mutex, pc, chunk, bug_pc, api_pc, reply, nrecv, nbytes,
                    injected, dropped, path, it_queue, written, old, uplink,
                    hist >>

\* a context as the list of the other contexts of the call keeps it
Other(thread, bug_attached, running, sock, sock_closes) ==
    [ thread |-> thread, attached |-> bug_attached, running |-> running,
      sock |-> sock, closes |-> sock_closes ]

\* gemini_live again on a call that has run it before.  Nothing in the start
\* sequence looks for a context the call already has: a new context, a new
\* socket and a new thread are made.  switch_core_media_bug_add is the
\* host's: either it adds the second bug, and the new context takes the
\* registration while the earlier one stays attached without it, or it
\* refuses, and the start fails with its thread already running.
gemini_live_start_again ==
    /\ call = "ready"
    /\ start_log # "none"
    /\ Len(old) < MaxRestarts
    /\ bug_pc = "idle"
    /\ api_pc = "idle"
    /\ \/ /\ old' = Append(old,
                     Other(IF pc \in {"none", "done"} THEN "done" ELSE "alive",
                           attached, ctx.running, sock_state, closes.sock))
          /\ \E impl \in SessionImpls :
               ctx' = [ StartCtxAt(impl, "bug") EXCEPT !.running = 1,
                                                         !.bug = "bug" ]
          /\ sock_state' = "open"
          /\ pc' = "loop"
          /\ attached' = TRUE
          /\ private' = "ctx"
          /\ start_log' = ESTABLISHED
          /\ audio_queue' = << >>
          /\ write_frame_data' = << >>
          /\ mutex' = NULL
          /\ chunk' = << >>
          /\ nbytes' = 0
          /\ injected' = << >>
          /\ dropped' = NoDropped
          /\ path' = "none"
          /\ it_queue' = << >>
          /\ closes' = NoCloses
          /\ hist' = [NoHist EXCEPT !.on = hist.on]
       \/ /\ attached
          /\ old' = Append(old, Other("alive", FALSE, 0, "closed", 1))
          /\ start_log' = "bug"
          /\ UNCHANGED << ctx, sock_state, pc, attached, private, audio_queue,
                          write_frame_data, mutex, chunk, nbytes, injected,
                          dropped, path, it_queue, closes, hist >>
    /\ UNCHANGED << now, call, bug_pc, api_pc, reply, nrecv, written, uplink >>

\* the socket thread of another context of the call returns: its receive
\* failed, or the call or the context stopped; it sets running to 0
OtherThreadExit ==
    /\ \E i \in DOMAIN old :
         /\ old[i].thread = "alive"
         /\ old' = [old EXCEPT ![i].thread = "done", ![i].running = 0]
    /\ UNCHANGED << now, call, private, attached, ctx, audio_queue,
                    write_frame_data, mutex, sock_state, pc, chunk, bug_pc,
                    api_pc, reply, nrecv, nbytes, injected, dropped, path,
                    it_queue, closes, written, start_log, uplink, hist >>

\* ------------------------------------------------------------ socket thread
\* a step that leaves the queue q has served the flush that was waiting
\* when q is empty
Cleared(h, q) ==
    IF q = << >> THEN [h EXCEPT !.unserved = FALSE, !.at_flush = {}] ELSE h

\* what the socket thread leaves alone at every step
ThreadFrame == UNCHANGED << now, call, private, attached, sock_state, bug_pc,
                            api_pc, reply, closes, written, start_log, old,
                            uplink >>

\* while (ctx->running && switch_channel_ready(ctx->channel))
T_Loop ==
    /\ pc = "loop"
    /\ pc' = IF ctx.running = 1 /\ switch_channel_ready THEN "recv" ELSE "exit"
    /\ path' = "none"
    /\ UNCHANGED << ctx, audio_queue, write_frame_data, mutex, chunk, nrecv,
                    nbytes, injected, dropped, it_queue >>
    /\ hist' = hist
    /\ ThreadFrame

\* switch_socket_recv and the resampling of what it returned
T_Recv(limit) ==
    /\ pc = "recv"
    /\ \/ \* status != SWITCH_STATUS_SUCCESS || recv_len == 0
          /\ pc' = "exit"
          /\ UNCHANGED << chunk, nrecv, nbytes, it_queue, hist >>
       \/ /\ ctx.sock # NULL
          /\ sock_state = "open"
          /\ nrecv < limit
          /\ \E recv_len \in RecvLens :
               LET bytes_out ==
                     BytesOut(recv_len, ctx.write_resampler, ctx.session_rate)
               IN  /\ recv_len <= RECV_BUF_SIZE
                   /\ chunk' = Fresh(nbytes, bytes_out)
                   /\ nbytes' = nbytes + bytes_out
          /\ nrecv' = nrecv + 1
          /\ it_queue' = audio_queue
          /\ hist' = Rec(hist, [hist EXCEPT
                        !.pace = IF @ = "failed" THEN "received" ELSE @])
          /\ pc' = "chk_flush"
    /\ UNCHANGED << ctx, audio_queue, write_frame_data, mutex, injected,
                    dropped, path >>
    /\ ThreadFrame

\* if (ctx->flush_flag), read without the mutex
T_ChkFlush ==
    /\ pc = "chk_flush"
    /\ pc' = IF ctx.flush_flag = 1 THEN "flush_cs" ELSE "chk_discard"
    /\ UNCHANGED << ctx, audio_queue, write_frame_data, mutex, chunk, nrecv,
                    nbytes, injected, dropped, path, it_queue >>
    /\ hist' = hist
    /\ ThreadFrame

\* a flush that leaves a deadline that is armed as it is
ThreadFlushCtxKeepsDeadline(c, t) ==
    [ c EXCEPT !.flush_flag = 0,
               !.discard_until =
                   IF @ > 0 THEN @ ELSE t + GEMINI_DISCARD_DURATION_US ]

\* the history after the socket thread, with the context c at time t, has
\* cleared the flag and left the queue q
Observed(h, q, c, t) ==
    [ Cleared(h, q) EXCEPT
        !.last_obs = t,
        !.rearmed = @ \/ (c.discard_until > 0 /\ t < c.discard_until) ]

\* the flush of the socket thread: what it writes to the context
ThreadFlushCtx(c, t) ==
    [ c EXCEPT !.flush_flag = 0,
               !.discard_until = t + GEMINI_DISCARD_DURATION_US ]

\* lock, zero the queue, clear the flag, arm the deadline, unlock, continue
T_FlushCs ==
    /\ pc = "flush_cs"
    /\ mutex = NULL
    /\ audio_queue' = switch_buffer_zero(audio_queue)
    /\ ctx' = ThreadFlushCtx(ctx, now)
    /\ mutex' = NULL
    /\ dropped' = [dropped EXCEPT
                      !.flush = @ \cup Range(audio_queue) \cup Range(chunk)]
    /\ chunk' = << >>
    /\ path' = "flushed"
    /\ it_queue' = << >>
    /\ pc' = "loop"
    /\ UNCHANGED << write_frame_data, nrecv, nbytes, injected >>
    /\ hist' = Rec(hist, Observed(hist, audio_queue', ctx, now))
    /\ ThreadFrame

\* the comparison with the deadline turned round
InDiscardWindowReversed(c, t) == c.discard_until > 0 /\ t > c.discard_until

\* a deadline that never passes
InDiscardWindowForever(c, t) == c.discard_until > 0

\* ctx->discard_until > 0 && switch_time_now() < ctx->discard_until
InDiscardWindow(c, t) == c.discard_until > 0 /\ t < c.discard_until

\* the discard window: drop the chunk, or end the window, or neither
T_ChkDiscard ==
    /\ pc = "chk_discard"
    /\ IF InDiscardWindow(ctx, now)
       THEN /\ pc' = "loop"
            /\ dropped' = [dropped EXCEPT !.discard = @ \cup Range(chunk)]
            /\ chunk' = << >>
            /\ path' = "discarded"
            /\ ctx' = ctx
       ELSE IF ctx.discard_until > 0
       THEN /\ ctx' = [ctx EXCEPT !.discard_until = 0]
            /\ path' = "resumed"
            /\ pc' = "enq_cs"
            /\ UNCHANGED << chunk, dropped >>
       ELSE /\ path' = "normal"
            /\ pc' = "enq_cs"
            /\ UNCHANGED << ctx, chunk, dropped >>
    /\ it_queue' = << >>
    /\ UNCHANGED << audio_queue, write_frame_data, mutex, nrecv, nbytes,
                    injected >>
    /\ hist' = hist
    /\ ThreadFrame

\* lock, toss the excess from the head, write the chunk, unlock
T_EnqCs ==
    /\ pc = "enq_cs"
    /\ mutex = NULL
    /\ audio_queue' = PushChunk(audio_queue, chunk)
    /\ dropped' = [dropped EXCEPT
                      !.overflow = @ \cup ((Range(audio_queue) \cup Range(chunk))
                                            \ Range(PushChunk(audio_queue, chunk)))]
    /\ mutex' = NULL
    /\ chunk' = << >>
    /\ pc' = "drain"
    /\ UNCHANGED << ctx, write_frame_data, nrecv, nbytes, injected, path,
                    it_queue >>
    /\ hist' = hist
    /\ ThreadFrame

\* while (switch_channel_ready(ctx->channel) && ctx->running)
T_Drain ==
    /\ pc = "drain"
    /\ pc' = IF switch_channel_ready /\ ctx.running = 1
             THEN "d_chk_flush" ELSE "loop"
    /\ path' = "none"
    /\ UNCHANGED << ctx, audio_queue, write_frame_data, mutex, chunk, nrecv,
                    nbytes, injected, dropped, it_queue >>
    /\ hist' = hist
    /\ ThreadFrame

\* a drain loop that does not look at the flag
T_DChkFlushBlind ==
    /\ pc = "d_chk_flush"
    /\ pc' = "d_check"
    /\ UNCHANGED << ctx, audio_queue, write_frame_data, mutex, chunk, nrecv,
                    nbytes, injected, dropped, path, it_queue >>
    /\ hist' = hist
    /\ ThreadFrame

\* if (ctx->flush_flag) in the drain loop, read without the mutex
T_DChkFlush ==
    /\ pc = "d_chk_flush"
    /\ pc' = IF ctx.flush_flag = 1 THEN "dflush_cs" ELSE "d_check"
    /\ UNCHANGED << ctx, audio_queue, write_frame_data, mutex, chunk, nrecv,
                    nbytes, injected, dropped, path, it_queue >>
    /\ hist' = hist
    /\ ThreadFrame

\* the flush in the drain loop: lock, zero, clear, arm, unlock, break
T_DFlushCs ==
    /\ pc = "dflush_cs"
    /\ mutex = NULL
    /\ audio_queue' = switch_buffer_zero(audio_queue)
    /\ ctx' = ThreadFlushCtx(ctx, now)
    /\ mutex' = NULL
    /\ dropped' = [dropped EXCEPT !.flush = @ \cup Range(audio_queue)]
    /\ pc' = "loop"
    /\ UNCHANGED << write_frame_data, chunk, nrecv, nbytes, injected, path,
                    it_queue >>
    /\ hist' = Rec(hist, Observed(hist, audio_queue', ctx, now))
    /\ ThreadFrame

\* a drain loop that stops while a whole frame is left
NotEnoughForTwo(queue_bytes, frame_bytes) == queue_bytes < 2 * frame_bytes

\* queue_bytes < ctx->session_frame_bytes: unlock and break
NotEnough(queue_bytes, frame_bytes) == queue_bytes < frame_bytes

\* a break that forgets the unlock
DrainCheckKeepsLock(queue_bytes, frame_bytes) == FALSE

\* the size check in a critical section of its own
DrainCheckAlwaysUnlocks(queue_bytes, frame_bytes) == TRUE

\* the mutex is released after the size check only on the break
DrainCheckUnlocks(queue_bytes, frame_bytes) ==
    NotEnough(queue_bytes, frame_bytes)

\* lock; queue_bytes = switch_buffer_inuse(); break or go on to the read
T_DCheck ==
    /\ pc = "d_check"
    /\ mutex = NULL
    /\ LET queue_bytes == switch_buffer_inuse(audio_queue)
       IN  /\ pc' = IF NotEnough(queue_bytes, ctx.session_frame_bytes)
                    THEN "loop" ELSE "d_read"
           /\ mutex' = IF DrainCheckUnlocks(queue_bytes, ctx.session_frame_bytes)
                       THEN NULL ELSE "sock"
    /\ UNCHANGED << ctx, audio_queue, write_frame_data, chunk, nrecv, nbytes,
                    injected, dropped, path, it_queue >>
    /\ hist' = hist
    /\ ThreadFrame

\* switch_buffer_read of one frame into write_frame_data, unlock
T_DRead ==
    /\ pc = "d_read"
    /\ LET r == switch_buffer_read(audio_queue, ctx.session_frame_bytes)
       IN  /\ write_frame_data' = r[1]
           /\ audio_queue' = r[2]
    /\ mutex' = NULL
    /\ pc' = "inject"
    /\ UNCHANGED << ctx, chunk, nrecv, nbytes, injected, dropped, path,
                    it_queue >>
    /\ hist' = Rec(hist, [hist EXCEPT !.pace = "read"])
    /\ ThreadFrame

\* an injection that goes back to the drain loop without the sleep
T_InjectNoSleep ==
    /\ pc = "inject"
    /\ injected' = injected \o write_frame_data
    /\ pc' = "drain"
    /\ UNCHANGED << ctx, audio_queue, write_frame_data, mutex, chunk, nrecv,
                    nbytes, dropped, path, it_queue, hist >>
    /\ ThreadFrame

\* switch_core_session_write_frame: the frame goes to the call; on a status
\* other than success the drain loop breaks, without the sleep
T_Inject ==
    /\ pc = "inject"
    /\ injected' = injected \o write_frame_data
    /\ \E status \in {"SUCCESS", "FALSE"} :
         /\ pc' = IF status = "SUCCESS" THEN "sleep" ELSE "loop"
         /\ hist' = IF status = "SUCCESS" THEN hist
                    ELSE Rec(hist, [hist EXCEPT !.pace = "failed"])
    /\ UNCHANGED << ctx, audio_queue, write_frame_data, mutex, chunk, nrecv,
                    nbytes, dropped, path, it_queue >>
    /\ ThreadFrame

\* switch_yield(ctx->read_ptime * 1000)
T_Sleep ==
    /\ pc = "sleep"
    /\ pc' = "drain"
    /\ UNCHANGED << ctx, audio_queue, write_frame_data, mutex, chunk, nrecv,
                    nbytes, injected, dropped, path, it_queue >>
    /\ hist' = Rec(hist, [hist EXCEPT !.pace = "slept"])
    /\ ThreadFrame

\* a return that leaves running as it is
T_ExitKeepsRunning ==
    /\ pc = "exit"
    /\ pc' = "done"
    /\ UNCHANGED << ctx, audio_queue, write_frame_data, mutex, chunk, nrecv,
                    nbytes, injected, dropped, path, it_queue >>
    /\ hist' = hist
    /\ ThreadFrame

\* ctx->running = 0; return
T_Exit ==
    /\ pc = "exit"
    /\ ctx' = [ctx EXCEPT !.running = 0]
    /\ pc' = "done"
    /\ UNCHANGED << audio_queue, write_frame_data, mutex, chunk, nrecv, nbytes,
                    injected, dropped, path, it_queue >>
    /\ hist' = hist
    /\ ThreadFrame

gemini_socket_thread(limit) ==
    \/ T_Loop \/ T_Recv(limit) \/ T_ChkFlush \/ T_FlushCs \/ T_ChkDiscard
    \/ T_EnqCs \/ T_Drain \/ T_DChkFlush \/ T_DFlushCs \/ T_DCheck
    \/ T_DRead \/ T_Inject \/ T_Sleep \/ T_Exit

\* the places where the socket thread reads or writes the queue, the flush
\* flag or the discard deadline
ThreadAccesses ==
    { "chk_flush", "flush_cs", "chk_discard", "enq_cs", "d_chk_flush",
      "dflush_cs", "d_check", "d_read" }

\* those of them between switch_mutex_lock and switch_mutex_unlock
ThreadLocked == { "flush_cs", "enq_cs", "dflush_cs", "d_check", "d_read" }

\* the steps the socket thread takes by itself: all but a receive on a
\* socket that is open, which returns when the peer sends or closes
ThreadRuns(limit) ==
    /\ pc = "recv" => ctx.sock = NULL \/ sock_state # "open"
    /\ gemini_socket_thread(limit)

\* ------------------------------------------------------------ media bug
BugFrame == UNCHANGED << now, call, private, attached, write_frame_data,
                         sock_state, pc, chunk, api_pc, reply, nrecv, nbytes,
                         injected, path, it_queue, closes, written, start_log,
                         old >>

\* SWITCH_ABC_TYPE_READ_REPLACE: the captured frame goes to the socket with a
\* non-blocking send when ctx->sock && ctx->running; nothing of the context
\* is written
ReadReplace ==
    /\ attached
    /\ call = "ready"
    /\ bug_pc = "idle"
    /\ UNCHANGED << ctx, audio_queue, mutex, bug_pc, dropped, uplink, hist >>
    /\ BugFrame

\* SWITCH_ABC_TYPE_READ_REPLACE with its send: when ctx->sock && ctx->running
\* the frame is resampled and given to switch_socket_send_nonblock, which
\* sends it or, the socket buffer being full, does not; the status is not
\* read and the callback returns at once.  The flush flag is not read.
ReadReplaceSend ==
    /\ attached
    /\ call = "ready"
    /\ bug_pc = "idle"
    /\ uplink.sent + uplink.dropped < MaxUplink
    /\ ctx.sock # NULL
    /\ ctx.running = 1
    /\ \E sent \in BOOLEAN :
         uplink' = IF sent THEN [uplink EXCEPT !.sent = @ + 1]
                           ELSE [uplink EXCEPT !.dropped = @ + 1]
    /\ UNCHANGED << ctx, audio_queue, mutex, bug_pc, dropped, hist >>
    /\ BugFrame

\* SWITCH_ABC_TYPE_WRITE_REPLACE is called and reaches switch_mutex_lock
WriteReplace ==
    /\ attached
    /\ call = "ready"
    /\ bug_pc = "idle"
    /\ bug_pc' = "w_lock"
    /\ UNCHANGED << ctx, audio_queue, mutex, dropped, uplink, hist >>
    /\ BugFrame

\* a write-replace callback that leaves the flag as it is
BugFlushCtxKeepsFlag(c, t) == c

\* the flush of the write-replace callback: what it writes to the context
BugFlushCtx(c, t) == [ c EXCEPT !.flush_flag = 0 ]

\* lock; if (ctx->flush_flag) zero the queue and clear the flag; unlock
WriteReplaceCs ==
    /\ bug_pc = "w_lock"
    /\ mutex = NULL
    /\ IF ctx.flush_flag = 1
       THEN /\ audio_queue' = switch_buffer_zero(audio_queue)
            /\ ctx' = BugFlushCtx(ctx, now)
            /\ dropped' = [dropped EXCEPT !.flush = @ \cup Range(audio_queue)]
            /\ hist' = Rec(hist, Cleared(hist, audio_queue'))
       ELSE UNCHANGED << audio_queue, ctx, dropped, hist >>
    /\ mutex' = NULL
    /\ bug_pc' = "idle"
    /\ uplink' = uplink
    /\ BugFrame

\* a teardown that leaves the thread's flag and the socket alone
CloseCtxResamplersOnly(c) ==
    [ c EXCEPT !.read_resampler = NULL,
               !.write_resampler = NULL,
               !.codec_ready = FALSE ]

\* SWITCH_ABC_TYPE_CLOSE: the context after the teardown
CloseCtx(c) ==
    [ c EXCEPT !.running = 0,
               !.sock = NULL,
               !.read_resampler = NULL,
               !.write_resampler = NULL,
               !.codec_ready = FALSE ]

\* the socket after SWITCH_ABC_TYPE_CLOSE
CloseSock(c, s) == IF c.sock # NULL THEN "closed" ELSE s

\* the teardown calls SWITCH_ABC_TYPE_CLOSE makes
CloseCalls(c, n) ==
    [ n EXCEPT
        !.sock = @ + (IF c.sock # NULL THEN 1 ELSE 0),
        !.read_resampler = @ + (IF c.read_resampler # NULL THEN 1 ELSE 0),
        !.write_resampler = @ + (IF c.write_resampler # NULL THEN 1 ELSE 0),
        !.codec = @ + (IF c.codec_ready THEN 1 ELSE 0) ]

\* ------------------------------------------------------------ API
ApiFrame == UNCHANGED << now, call, write_frame_data, pc, chunk, bug_pc, nrecv,
                         nbytes, injected, dropped, path, it_queue, written,
                         start_log, old, uplink >>

\* a lookup that goes on with a call that has no context
LookupSkipsPrivate(cmd) ==
    IF cmd = "" THEN ERR_USAGE
    ELSE IF ~switch_core_session_locate(cmd) THEN ERR_NOT_FOUND
    ELSE NULL

\* the answer of the lookup both commands start with; NULL when it finds
\* the context
Lookup(cmd) ==
    IF cmd = "" THEN ERR_USAGE
    ELSE IF ~switch_core_session_locate(cmd) THEN ERR_NOT_FOUND
    ELSE IF switch_channel_get_private(cmd) = NULL THEN ERR_NOT_ACTIVE
    ELSE NULL

\* uuid_gemini_flush <uuid>, up to switch_mutex_lock
uuid_gemini_flush_function(cmd) ==
    /\ api_pc = "idle"
    /\ IF Lookup(cmd) # NULL
       THEN /\ reply' = [cmd |-> "flush", uuid |-> cmd, text |-> Lookup(cmd)]
            /\ api_pc' = api_pc
       ELSE /\ api_pc' = "f_lock"
            /\ reply' = reply
    /\ UNCHANGED << private, attached, ctx, audio_queue, mutex, sock_state,
                    closes, hist >>
    /\ ApiFrame

\* lock; ctx->flush_flag = 1; unlock; +OK (only call "a" has a context)
FlushCs ==
    /\ api_pc = "f_lock"
    /\ mutex = NULL
    /\ ctx' = [ctx EXCEPT !.flush_flag = 1]
    /\ mutex' = NULL
    /\ reply' = [cmd |-> "flush", uuid |-> "a", text |-> OK]
    /\ api_pc' = "idle"
    /\ hist' = Rec(hist, [hist EXCEPT !.at_flush = Range(audio_queue),
                                      !.unserved = TRUE])
    /\ UNCHANGED << private, attached, audio_queue, sock_state, closes >>
    /\ ApiFrame

\* a stop that tears down only a relay whose thread is running
StopRemovesBugWhileRunning(c) == c.bug # NULL /\ c.running = 1

\* uuid_gemini_stop: the bug is removed only when ctx->bug is set
StopRemovesBug(c) == c.bug # NULL

\* a stop that leaves the registration in place
StopPrivateKept(p) == p

\* uuid_gemini_stop: the registration it leaves on the channel
StopPrivate(p) == NULL

\* uuid_gemini_stop <uuid>: switch_core_media_bug_remove runs the close
\* callback before it returns and nulls ctx->bug
uuid_gemini_stop_function(cmd) ==
    /\ api_pc = "idle"
    /\ bug_pc = "idle"
    /\ reply' = [cmd |-> "stop", uuid |-> cmd,
                 text |-> IF Lookup(cmd) # NULL THEN Lookup(cmd) ELSE OK]
    /\ IF Lookup(cmd) # NULL
       THEN UNCHANGED << private, attached, ctx, sock_state, closes >>
       ELSE /\ IF StopRemovesBug(ctx)
               THEN /\ ctx' = [CloseCtx(ctx) EXCEPT !.bug = NULL]
                    /\ sock_state' = CloseSock(ctx, sock_state)
                    /\ closes' = [CloseCalls(ctx, closes) EXCEPT !.detach = @ + 1]
                    /\ attached' = FALSE
               ELSE UNCHANGED << ctx, sock_state, closes, attached >>
            /\ private' = StopPrivate(private)
    /\ UNCHANGED << audio_queue, mutex, api_pc, hist >>
    /\ ApiFrame

\* ------------------------------------------------------------ hangup
\* the call hangs up: switch_channel_ready turns false
Hangup ==
    /\ call = "ready"
    /\ call' = "hangup"
    /\ UNCHANGED << now, private, attached, ctx, audio_queue, write_frame_data,
                    mutex, sock_state, pc, chunk, bug_pc, api_pc, reply, nrecv,
                    nbytes, injected, dropped, path, it_queue, closes, written,
                    start_log, old, uplink, hist >>

\* the close callback on a context an earlier run left on the call
CloseOld(o) ==
    [ o EXCEPT !.attached = FALSE,
               !.running = 0,
               !.sock = IF o.attached /\ o.sock = "open" THEN "closed" ELSE @,
               !.closes = @ + (IF o.attached /\ o.sock = "open" THEN 1 ELSE 0) ]

\* the host destroys the session of a hung-up call: every bug still attached
\* gets its close callback, and the call can no longer be located
Destroy ==
    /\ call = "hangup"
    /\ api_pc = "idle"
    /\ bug_pc = "idle"
    /\ call' = "destroyed"
    /\ IF attached
       THEN /\ ctx' = CloseCtx(ctx)
            /\ sock_state' = CloseSock(ctx, sock_state)
            /\ closes' = [CloseCalls(ctx, closes) EXCEPT !.detach = @ + 1]
            /\ attached' = FALSE
       ELSE UNCHANGED << ctx, sock_state, closes, attached >>
    /\ old' = [ i \in DOMAIN old |-> CloseOld(old[i]) ]
    /\ UNCHANGED << now, private, audio_queue, write_frame_data, mutex, pc,
                    chunk, bug_pc, api_pc, reply, nrecv, nbytes, injected,
                    dropped, path, it_queue, written, start_log, uplink,
                    hist >>

\* ------------------------------------------------------------ specification
CmdArgs == UUIDS \cup {""}

\* The relay at work: the call is up, the sidecar sends audio, the clock
\* runs, flushes arrive for call "a", the call may hang up.
Next ==
    \/ Tick
    \/ gemini_live_start
    \/ gemini_socket_thread(MaxRecv)
    \/ ReadReplace
    \/ WriteReplace
    \/ WriteReplaceCs
    \/ uuid_gemini_flush_function("a")
    \/ FlushCs
    \/ Hangup

Spec == Init /\ [][Next]_vars

\* The life of the relay: every command with every argument, stop, hangup
\* and the destruction of the session, with little audio and a clock that
\* stands still.
NextLife ==
    \/ gemini_live_start
    \/ gemini_socket_thread(MaxRecvLife)
    \/ ReadReplace
    \/ WriteReplace
    \/ WriteReplaceCs
    \/ \E cmd \in CmdArgs : uuid_gemini_flush_function(cmd)
    \/ FlushCs
    \/ \E cmd \in CmdArgs : uuid_gemini_stop_function(cmd)
    \/ Hangup
    \/ Destroy

SpecLife == Init /\ [][NextLife]_vars

\* SpecLife with its scheduling: the socket thread runs unless it waits in a
\* receive, a callback or a command at switch_mutex_lock gets the mutex once
\* it is free, and the host destroys the session of a call that hung up
\* (it waits for the commands that hold the session).
FairLife ==
    /\ SpecLife
    /\ WF_vars(ThreadRuns(MaxRecvLife))
    /\ WF_vars(WriteReplaceCs)
    /\ WF_vars(FlushCs)
    /\ SF_vars(Destroy)

\* ------------------------------------------------------------ the queue alone
\* bytes written in one run of SpecQueue
MaxQueueBytes == 20

\* the sizes a resampled chunk can have
ChunkSizes ==
    { BytesOut(l, "resampler", i.rate) : l \in RecvLens, i \in SessionImpls }

\* the session frame sizes
FrameSizes ==
    { SessionFrameBytes(i.rate, ReadPtime(i.us)) : i \in SessionImpls }

QueueFrame == UNCHANGED << now, call, private, attached, ctx, write_frame_data,
                           mutex, sock_state, pc, chunk, bug_pc, api_pc, reply,
                           nrecv, injected, dropped, path, it_queue, closes,
                           start_log, old, uplink, hist >>

\* the push of the socket thread, on its own
QueueWrite ==
    /\ nbytes < MaxQueueBytes
    /\ \E n \in ChunkSizes :
         /\ audio_queue' = PushChunk(audio_queue, Fresh(nbytes, n))
         /\ written' = written \o Fresh(nbytes, n)
         /\ nbytes' = nbytes + n
    /\ QueueFrame

\* the frame read of the drain loop, on its own
QueueRead ==
    /\ \E n \in FrameSizes :
         /\ ~NotEnough(switch_buffer_inuse(audio_queue), n)
         /\ audio_queue' = switch_buffer_read(audio_queue, n)[2]
    /\ written' = << >>
    /\ nbytes' = nbytes
    /\ QueueFrame

\* the clear of a flush, on its own
QueueZero ==
    /\ audio_queue # << >>
    /\ audio_queue' = switch_buffer_zero(audio_queue)
    /\ written' = << >>
    /\ nbytes' = nbytes
    /\ QueueFrame

NextQueue == QueueWrite \/ QueueRead \/ QueueZero

SpecQueue == Init /\ [][NextQueue]_vars

\* ------------------------------------------------------------ starts
\* The runs of gemini_live on the call: the steps that can fail, a run on a
\* call that has run it before, then flush, stop, hangup and destruction.
\* The media callbacks are left to Spec and SpecLife.
NextStart ==
    \/ gemini_live_start
    \/ \E i \in DOMAIN StartSteps : gemini_live_start_fails(StartSteps[i])
    \/ gemini_live_start_again
    \/ OtherThreadExit
    \/ gemini_socket_thread(MaxRecvLife)
    \/ uuid_gemini_flush_function("a")
    \/ FlushCs
    \/ uuid_gemini_stop_function("a")
    \/ Hangup
    \/ Destroy

SpecStart == Init /\ [][NextStart]_vars

\* ------------------------------------------------------------ media thread
\* The callbacks of the media thread with the uplink send, beside the socket
\* thread and the flush command; the clock stands still.
NextBug ==
    \/ gemini_live_start
    \/ gemini_socket_thread(MaxRecvLife)
    \/ ReadReplaceSend
    \/ WriteReplace
    \/ WriteReplaceCs
    \/ uuid_gemini_flush_function("a")
    \/ FlushCs
    \/ Hangup

SpecBug == Init /\ [][NextBug]_vars

\* ------------------------------------------------------------ start, step by step
\* gemini_live with its last two steps apart: the socket thread runs from
\* switch_thread_create on, before the bug is added or refused.
NextSpawn ==
    \/ gemini_live_start_spawned
    \/ gemini_live_start_bug_added
    \/ gemini_live_start_bug_fails
    \/ gemini_socket_thread(MaxRecvLife)
    \/ uuid_gemini_flush_function("a")
    \/ FlushCs
    \/ Hangup

SpecSpawn == Init /\ [][NextSpawn]_vars

\* ------------------------------------------------------------ pacer
\* The pacer and the flushes with their history kept: the socket thread,
\* the write-replace callback and the flush command; the clock stands still.
NextPace ==
    \/ gemini_live_start
    \/ gemini_socket_thread(MaxRecv)
    \/ WriteReplace
    \/ WriteReplaceCs
    \/ uuid_gemini_flush_function("a")
    \/ FlushCs
    \/ Hangup

SpecPace == InitObserved /\ [][NextPace]_vars

\* the relay at work (Next), with the history kept
SpecObserved == InitObserved /\ [][Next]_vars

\* ------------------------------------------------------------ claims
\* ------------------------------------------------------------ C1
\* C1: whichever observer clears a set flush flag (the socket thread or the
\* write-replace callback), the same step empties the queue and arms the
\* discard deadline to the time of the observation plus the discard window.
C1_FirstObserverArmsDiscard ==
    [][ (ctx.flush_flag = 1 /\ ctx'.flush_flag = 0) =>
          /\ audio_queue' = << >>
          /\ ctx'.discard_until = now + GEMINI_DISCARD_DURATION_US ]_vars

\* ------------------------------------------------------------ C2
\* C2: a chunk that reaches the discard check while a deadline is armed and
\* the time is strictly before it is dropped: the iteration ends there, the
\* queue is what it was when the chunk was received, and nothing is dequeued
\* or injected.
C2_DroppedInsideWindow ==
    [][ ( /\ pc = "chk_discard"
          /\ pc' # pc
          /\ ctx.discard_until > 0
          /\ now < ctx.discard_until ) =>
          /\ pc' = "loop"
          /\ audio_queue' = audio_queue
          /\ audio_queue' = it_queue
          /\ injected' = injected
          /\ write_frame_data' = write_frame_data
          /\ chunk' = << >>
          /\ Range(chunk) \subseteq dropped'.discard ]_vars

\* a chunk has just been dropped inside the window
C2_Witness ==
    /\ pc = "loop"
    /\ path = "discarded"
    /\ ctx.discard_until > 0
    /\ now < ctx.discard_until
    /\ dropped.discard # {}

\* ------------------------------------------------------------ C3
\* C3: a chunk that reaches the discard check with a deadline armed and the
\* time at or after it clears the deadline and goes on to the push, and the
\* push appends it as it appends a chunk that met no deadline: the queue
\* becomes the last GEMINI_QUEUE_MAX_SIZE bytes of queue + chunk.
C3_ResumedAfterWindow ==
    [][ /\ ( /\ pc = "chk_discard"
             /\ pc' # pc
             /\ ctx.discard_until > 0
             /\ now >= ctx.discard_until ) =>
             /\ ctx'.discard_until = 0
             /\ pc' = "enq_cs"
             /\ chunk' = chunk
             /\ chunk # << >>
             /\ audio_queue' = audio_queue
        /\ ( pc = "enq_cs" /\ pc' # pc ) =>
             /\ path \in {"normal", "resumed"}
             /\ ctx.discard_until = 0
             /\ audio_queue' =
                  TakeLast(audio_queue \o chunk, GEMINI_QUEUE_MAX_SIZE)
             /\ pc' = "drain" ]_vars

\* a chunk received after the window has been appended
C3_Witness ==
    /\ pc = "drain"
    /\ path = "resumed"
    /\ ctx.discard_until = 0
    /\ audio_queue # << >>
    /\ dropped.flush # {}

\* ------------------------------------------------------------ C4
\* C4: the queue never holds more than GEMINI_QUEUE_MAX_SIZE bytes.
C4_QueueBounded == switch_buffer_inuse(audio_queue) <= GEMINI_QUEUE_MAX_SIZE

\* the queue is full after a push that tossed bytes
C4_Witness ==
    /\ pc = "drain"
    /\ dropped.overflow # {}
    /\ switch_buffer_inuse(audio_queue) = GEMINI_QUEUE_MAX_SIZE

\* ------------------------------------------------------------ C5
\* C5: once the writes since the last read or clear add up to more than the
\* capacity, the queue holds exactly capacity bytes, and they are the last
\* capacity bytes of those writes in order.
C5_OverflowKeepsNewest ==
    Len(written) > GEMINI_QUEUE_MAX_SIZE =>
        /\ switch_buffer_inuse(audio_queue) = GEMINI_QUEUE_MAX_SIZE
        /\ audio_queue = TakeLast(written, GEMINI_QUEUE_MAX_SIZE)

\* three writes or more in a row have overflowed the queue
C5_Witness ==
    /\ Len(written) > GEMINI_QUEUE_MAX_SIZE + 2
    /\ audio_queue # << >>
    /\ audio_queue[1] > written[1] + 2

\* ------------------------------------------------------------ C11
\* C11: when a step of gemini_live_start has failed, the context it leaves
\* holds nothing: no queue, no resampler, no socket (a socket that was
\* created is closed), no codec; no bug is attached and the call has no
\* registration.
C11_StartFailsClosed ==
    start_log \in Range(StartSteps) /\ old = << >> =>
        /\ ctx.audio_queue = NULL
        /\ ctx.read_resampler = NULL
        /\ ctx.write_resampler = NULL
        /\ ctx.sock = NULL
        /\ sock_state # "open"
        /\ ~ctx.codec_ready
        /\ ctx.bug = NULL
        /\ ~attached
        /\ private = NULL

\* ------------------------------------------------------------ C12
\* the sockets of the call: of the context and of the other contexts
Sockets ==
    << [ state |-> sock_state, closes |-> closes.sock, attached |-> attached ] >>
    \o [ i \in DOMAIN old |->
           [ state |-> old[i].sock, closes |-> old[i].closes,
             attached |-> old[i].attached ] ]

\* C12: a socket is never closed twice; it is closed once exactly when it is
\* no longer open; a socket that is open belongs to a context whose bug is
\* attached (stop or the destruction of the session will close it), so after
\* a failed start, a stop or the destruction no socket is left open.
C12_SocketClosedOnce ==
    /\ \A i \in DOMAIN Sockets :
         /\ Sockets[i].closes <= 1
         /\ Sockets[i].state = "closed" <=> Sockets[i].closes = 1
         /\ Sockets[i].state = "open" => Sockets[i].attached
         /\ Sockets[i].state = "none" => ~Sockets[i].attached
    /\ call = "destroyed" => \A i \in DOMAIN Sockets : Sockets[i].state # "open"

\* the session was destroyed with two contexts on the call, each with its
\* socket, one of them stopped before
C12_Witness ==
    /\ call = "destroyed"
    /\ Len(Sockets) = 2
    /\ \A i \in DOMAIN Sockets : Sockets[i].closes = 1
    /\ reply.cmd = "stop" /\ reply.text = OK
    /\ pc = "done"

\* ------------------------------------------------------------ C13
\* the contexts of the call with their bug attached
Sessions ==
    (IF attached THEN 1 ELSE 0)
    + Cardinality({ i \in DOMAIN old : old[i].attached })

\* the socket threads of the call that have not returned
Threads ==
    (IF pc \notin {"none", "done"} THEN 1 ELSE 0)
    + Cardinality({ i \in DOMAIN old : old[i].thread = "alive" })

\* C13: the call has at most one context with its bug attached and at most
\* one socket thread that has not returned.
C13_AtMostOneRelay == Sessions <= 1 /\ Threads <= 1

\* ------------------------------------------------------------ C14
\* C14: no callback of the media thread waits: the read-replace callback
\* is one step that returns, and the write-replace callback is never at
\* switch_mutex_lock while another thread holds the mutex.
C14_InterceptsNeverWait == bug_pc = "w_lock" => mutex = NULL

\* ------------------------------------------------------------ C15
\* C15 as stated: with the flush flag set, the next callback of the media
\* thread, read-replace or write-replace, clears the flag and the queue.
C15_NextInterceptObserves ==
    [][ ( /\ ctx.flush_flag = 1
          /\ \/ uplink' # uplink
             \/ bug_pc = "w_lock" /\ bug_pc' = "idle" ) =>
          /\ ctx'.flush_flag = 0
          /\ audio_queue' = << >> ]_vars

\* C15: the write-replace callback returns with the flush flag clear, and
\* with the queue empty when it found the flag set, wherever the socket
\* thread is; the read-replace callback changes neither the flag nor the
\* queue.
C15_DownlinkObservesFlush ==
    [][ /\ ( bug_pc = "w_lock" /\ bug_pc' = "idle" ) =>
             /\ ctx'.flush_flag = 0
             /\ ctx.flush_flag = 1 => audio_queue' = << >>
        /\ uplink' # uplink =>
             /\ ctx'.flush_flag = ctx.flush_flag
             /\ audio_queue' = audio_queue ]_vars

\* the write-replace callback has cleared a queue that held audio, after a
\* read-replace callback that left the flag set, with the socket thread in
\* its receive: no deadline is armed
C15_Witness ==
    /\ pc = "recv"
    /\ ctx.flush_flag = 0
    /\ ctx.discard_until = 0
    /\ dropped.flush # {}
    /\ audio_queue = << >>
    /\ uplink.sent + uplink.dropped > 0
    /\ reply = [cmd |-> "flush", uuid |-> "a", text |-> OK]

\* ------------------------------------------------------------ C16
\* the socket thread was started and has not returned
ThreadAlive == pc \notin {"none", "done"}

\* C16: the socket thread returns after a receive that failed, after the
\* call stopped being ready, and after the teardown (running 0, socket
\* closed); when it has returned running is 0, and it stays returned: no
\* receive, no byte added to the queue, no frame injected.
C16_ThreadTerminates ==
    /\ [](pc = "done" => ctx.running = 0)
    /\ [][ pc = "done" =>
             /\ pc' = "done"
             /\ nrecv' = nrecv
             /\ nbytes' = nbytes
             /\ injected' = injected
             /\ Len(audio_queue') <= Len(audio_queue) ]_vars
    /\ ( \/ pc = "exit"
         \/ ThreadAlive /\ ~switch_channel_ready
         \/ ThreadAlive /\ ctx.running = 0 /\ ctx.sock = NULL ) ~> (pc = "done")

\* the thread has returned after a stop that found it at work
C16_Witness ==
    /\ pc = "done"
    /\ call = "ready"
    /\ closes.detach = 1
    /\ nrecv > 0
    /\ audio_queue # << >>

\* ------------------------------------------------------------ C17
\* C17: the receive that fails and the return of the thread change nothing
\* but running; when the thread has returned and nothing has detached the
\* bug, the bug is attached, the call is registered, the socket is open and
\* ctx->sock is set; no thread is started again; a flush for the call goes
\* on to set the flag, and a stop or the destruction of the session closes
\* the socket and detaches the bug.
C17_ExitLeavesSessionAttached ==
    [][ /\ ( pc = "recv" /\ pc' = "exit" ) =>
             UNCHANGED << ctx, attached, private, sock_state, closes >>
        /\ ( pc = "exit" /\ pc' = "done" ) =>
             /\ ctx' = [ctx EXCEPT !.running = 0]
             /\ UNCHANGED << attached, private, sock_state, closes >>
        /\ ( pc = "done" /\ closes.detach = 0 ) =>
             /\ ctx.running = 0
             /\ attached
             /\ private = "ctx"
             /\ sock_state = "open"
             /\ ctx.sock # NULL
        /\ pc = "done" => pc' = "done"
        /\ ( /\ pc = "done" /\ closes.detach = 0
             /\ switch_core_session_locate("a")
             /\ uuid_gemini_flush_function("a") ) => api_pc' = "f_lock"
        /\ ( /\ pc = "done" /\ closes.detach = 0
             /\ switch_core_session_locate("a")
             /\ uuid_gemini_stop_function("a") ) =>
             /\ reply' = [cmd |-> "stop", uuid |-> "a", text |-> OK]
             /\ sock_state' = "closed"
             /\ ctx'.sock = NULL
             /\ closes'.sock = 1
             /\ closes'.detach = 1
             /\ ~attached'
        /\ ( pc = "done" /\ closes.detach = 0 /\ Destroy ) =>
             /\ sock_state' = "closed"
             /\ closes'.sock = 1
             /\ ~attached' ]_vars

\* the thread has returned on a call that is up, and a flush issued since
\* has set the flag of the relay it left attached
C17_Witness ==
    /\ pc = "done"
    /\ call = "ready"
    /\ closes.detach = 0
    /\ attached
    /\ private = "ctx"
    /\ sock_state = "open"
    /\ ctx.flush_flag = 1
    /\ reply = [cmd |-> "flush", uuid |-> "a", text |-> OK]

\* ------------------------------------------------------------ C18
\* C18: the socket thread takes audio only from a socket that is open and
\* set in the context, and injects a frame only with the codec ready.
C18_NoUseAfterClose ==
    [][ /\ ( pc = "recv" /\ pc' = "chk_flush" ) =>
             ctx.sock # NULL /\ sock_state = "open"
        /\ ( pc = "inject" /\ pc' # pc ) => ctx.codec_ready ]_vars

\* ------------------------------------------------------------ C19
\* C19 as stated: every step of the socket thread that reads or writes the
\* queue, the flush flag or the discard deadline is made with the mutex.
C19_AllAccessUnderMutex ==
    [][ ( pc \in ThreadAccesses /\ pc' # pc ) => pc \in ThreadLocked ]_vars

\* the step is a critical section: of the socket thread, of the
\* write-replace callback or of the flush command
CriticalSection ==
    \/ mutex = "sock" /\ pc = "d_read" /\ pc' = "inject"
    \/ mutex = NULL /\ pc \in ThreadLocked \ {"d_read"} /\ pc' # pc
    \/ mutex = NULL /\ bug_pc = "w_lock" /\ bug_pc' = "idle"
    \/ mutex = NULL /\ api_pc = "f_lock" /\ api_pc' = "idle"

\* C19: the queue changes and the flush flag is written only in a critical
\* section, which no step enters while the socket thread holds the mutex;
\* the reads of the flush flag at the two tests of the socket thread and
\* the read and the clearing of the discard deadline are made without it.
C19_WritesUnderMutex ==
    [][ /\ audio_queue' # audio_queue => CriticalSection
        /\ ( ctx'.flush_flag # ctx.flush_flag /\ pc # "none" ) => CriticalSection
        /\ ( ctx'.discard_until # ctx.discard_until /\ pc # "none" ) =>
             CriticalSection \/ pc = "chk_discard"
        /\ ( pc \in ThreadAccesses \ ThreadLocked /\ pc' # pc ) =>
             /\ audio_queue' = audio_queue
             /\ ctx'.flush_flag = ctx.flush_flag
        /\ mutex \in {NULL, "sock"} ]_vars

\* the callback and the command wait at switch_mutex_lock while the socket
\* thread holds the mutex for its read, after a deadline was cleared
\* without the mutex
C19_Witness ==
    /\ pc = "d_read"
    /\ mutex = "sock"
    /\ bug_pc = "w_lock"
    /\ api_pc = "f_lock"
    /\ path = "none"
    /\ dropped.flush # {}
    /\ ctx.discard_until = 0

\* ------------------------------------------------------------ C20
\* C20: only the socket thread is ever seen with the mutex, between the
\* size check and the frame read: not at its receive, its injection, its
\* sleep or anywhere else; a step that takes the mutex finds it free; and
\* a mutex that is held is released.
C20_MutexReleased ==
    /\ [](mutex \in {NULL, "sock"})
    /\ [](mutex = "sock" => pc = "d_read")
    /\ [][ ( mutex = NULL /\ mutex' = "sock" ) => pc = "d_check" ]_vars
    /\ (mutex # NULL) ~> (mutex = NULL)

\* the socket thread has released the mutex and injects its frame while the
\* flush command is at switch_mutex_lock
C20_Witness ==
    /\ pc = "inject"
    /\ mutex = NULL
    /\ api_pc = "f_lock"
    /\ write_frame_data # << >>

\* ------------------------------------------------------------ C6
\* C6: a frame is read only in the critical section that checked the size:
\* at the read the socket thread holds the mutex and the queue holds at
\* least session_frame_bytes; the read takes exactly session_frame_bytes
\* bytes from the head, and nothing else fills the frame buffer.  An
\* 8000 Hz session with 20 ms packets has frames of 320 bytes.
C6_FrameReadUnderCheck ==
    [][ /\ SessionFrameBytes(8000, ReadPtime(20000)) = 320
        /\ pc = "d_read" =>
             /\ mutex = "sock"
             /\ ctx.session_frame_bytes > 0
             /\ switch_buffer_inuse(audio_queue) >= ctx.session_frame_bytes
        /\ ( pc = "d_read" /\ pc' # pc ) =>
             /\ pc' = "inject"
             /\ Len(write_frame_data') = ctx.session_frame_bytes
             /\ write_frame_data' =
                  SubSeq(audio_queue, 1, ctx.session_frame_bytes)
             /\ audio_queue' =
                  SubSeq(audio_queue, ctx.session_frame_bytes + 1,
                         Len(audio_queue))
        /\ write_frame_data' # write_frame_data => pc = "d_read" ]_vars

\* the socket thread is between the check and the read while a flush is
\* pending and the write-replace callback waits for the mutex
C6_Witness ==
    /\ pc = "d_read"
    /\ mutex = "sock"
    /\ ctx.flush_flag = 1
    /\ bug_pc = "w_lock"

\* ------------------------------------------------------------ C7
\* C7: the bytes injected so far, the frame about to be injected, the queue
\* and the chunk in hand, in this order, are strictly increasing positions
\* of the received stream: playback keeps the order and repeats nothing.
\* Every received byte is injected, waiting, or was dropped by overflow,
\* by a flush or by the discard window.
C7_PlaybackFifo ==
    LET inflight == IF pc = "inject" THEN write_frame_data ELSE << >>
        kept == injected \o inflight \o audio_queue \o chunk
        lost == dropped.overflow \cup dropped.flush \cup dropped.discard
    IN  /\ StrictlyIncreasing(kept)
        /\ Range(kept) \cup lost = 1..nbytes
        /\ Range(kept) \cap lost = {}
        /\ Len(injected) % 2 = 0

\* frames were injected on both sides of dropped bytes
C7_Witness ==
    /\ Len(injected) >= 8
    /\ \E i \in 1..(Len(injected) - 1) : injected[i + 1] > injected[i] + 1
    /\ dropped.overflow # {}

\* ------------------------------------------------------------ C8
StopOk == [cmd |-> "stop", uuid |-> "a", text |-> OK]

\* C8: once stop has answered +OK for the call, the relay is torn down:
\* running is 0, the socket is closed and ctx->sock is NULL, the resamplers
\* and the codec are released, the bug is detached and the registration is
\* cleared; each release was made once.
C8_StopTearsDown ==
    reply = StopOk =>
        /\ ctx.running = 0
        /\ ctx.sock = NULL
        /\ sock_state = "closed"
        /\ ctx.read_resampler = NULL
        /\ ctx.write_resampler = NULL
        /\ ~ctx.codec_ready
        /\ ctx.bug = NULL
        /\ ~attached
        /\ private = NULL
        /\ closes = [ sock |-> 1, read_resampler |-> 1, write_resampler |-> 1,
                      codec |-> 1, detach |-> 1 ]

\* stop has answered +OK while the socket thread was still in its loop
C8_Witness ==
    /\ reply = StopOk
    /\ pc \in {"recv", "d_chk_flush", "sleep"}

\* ------------------------------------------------------------ C9
\* C9: after a stop answered +OK, the call still being there, the lookup
\* of a further stop finds no relay: that stop answers "not active" and
\* tears nothing down: no
\* teardown call is made and the context, the socket, the bug and the
\* registration stay as they are.  No release is ever made twice.
C9_SecondStopNotActive ==
    [][ /\ ( reply = StopOk /\ switch_core_session_locate("a") ) =>
             Lookup("a") = ERR_NOT_ACTIVE
        /\ ( /\ reply = StopOk
             /\ switch_core_session_locate("a")
             /\ uuid_gemini_stop_function("a") ) =>
             /\ reply' = [cmd |-> "stop", uuid |-> "a", text |-> ERR_NOT_ACTIVE]
             /\ UNCHANGED << ctx, sock_state, closes, attached, private >>
        /\ \A r \in DOMAIN closes : closes'[r] <= 1 ]_vars

\* the second stop has answered "not active" after the teardown
C9_Witness ==
    /\ reply = [cmd |-> "stop", uuid |-> "a", text |-> ERR_NOT_ACTIVE]
    /\ call # "destroyed"
    /\ closes.detach = 1
    /\ closes.sock = 1
    /\ private = NULL

\* ------------------------------------------------------------ C10
\* the state of the relay
RelayState == << ctx, audio_queue, write_frame_data, mutex, sock_state, pc,
                 chunk, bug_pc, api_pc, private, attached, closes, call >>

\* C10: flush or stop with the identifier of no call answers "not found",
\* with the identifier of a call that has no relay registered answers
\* "not active", and in both cases changes nothing of the relay.
C10_LookupErrorsChangeNothing ==
    [][ \A cmd \in UUIDS :
          \A c \in {"flush", "stop"} :
            ( IF c = "flush" THEN uuid_gemini_flush_function(cmd)
                             ELSE uuid_gemini_stop_function(cmd) ) =>
              /\ ~switch_core_session_locate(cmd) =>
                   /\ reply' = [cmd |-> c, uuid |-> cmd, text |-> ERR_NOT_FOUND]
                   /\ UNCHANGED RelayState
              /\ ( /\ switch_core_session_locate(cmd)
                   /\ switch_channel_get_private(cmd) = NULL ) =>
                   /\ reply' = [cmd |-> c, uuid |-> cmd, text |-> ERR_NOT_ACTIVE]
                   /\ UNCHANGED RelayState ]_vars

\* a command for the call without a relay was refused while the relay of
\* the other call was at work with a flush pending
C10_Witness ==
    /\ reply.uuid = "b"
    /\ reply.text = ERR_NOT_ACTIVE
    /\ private = "ctx"
    /\ attached
    /\ ctx.flush_flag = 1
    /\ audio_queue # << >>

\* ------------------------------------------------------------ C21
\* the socket thread reads a frame from the queue
Dequeue == pc = "d_read" /\ pc' = "inject"

\* C21 as stated: the socket thread has slept since the frame it read
\* before, at every read of a frame but the first.
C21_SleepBetweenDequeues ==
    [][ Dequeue => hist.pace \in {"none", "slept"} ]_vars

\* C21: an injection that succeeds is followed by the sleep, of one packet
\* time of the call, and the sleep by the drain loop; an injection that
\* fails leaves the drain loop without the sleep; at every read of a frame
\* but the first, the thread has slept since the read before, or the
\* injection of that frame failed and a chunk was received since.
C21_SleepUnlessInjectFailed ==
    [][ /\ Dequeue => hist.pace \in {"none", "slept", "received"}
        /\ ( pc = "inject" /\ pc' # pc ) =>
             \/ pc' = "sleep" /\ hist'.pace = "read"
             \/ pc' = "loop" /\ hist'.pace = "failed"
        /\ pc = "sleep" =>
             \E i \in SessionImpls : ctx.read_ptime * 1000 = i.us
        /\ ( pc = "sleep" /\ pc' # pc ) =>
             pc' = "drain" /\ audio_queue' = audio_queue ]_vars

\* the thread is about to read a frame without having slept: the injection
\* of the frame before failed and the next chunk has come
C21_Witness ==
    /\ pc = "d_read"
    /\ hist.pace = "received"
    /\ injected # << >>
    /\ Len(audio_queue) >= ctx.session_frame_bytes

\* ------------------------------------------------------------ C22
\* the bytes of the frame read from the queue and not yet injected
InFlight == IF pc = "inject" THEN Range(write_frame_data) ELSE {}

\* the bytes the queue held at the last flush that have been played since
PlayedSinceFlush == hist.at_flush \cap (Range(injected) \cup InFlight)

\* C22: of the bytes the queue held when the flush command set the flag, at
\* most one frame is read by the pacer afterwards; while the flag is set the
\* others are in the queue or were tossed by an overflow; the step that
\* clears the flag empties the queue and counts them as dropped, and no
\* dropped byte is ever injected.
C22_BargeInBound ==
    /\ [] ( /\ Cardinality(PlayedSinceFlush) <= ctx.session_frame_bytes
            /\ hist.at_flush # {} => ctx.flush_flag = 1
            /\ hist.at_flush \subseteq
                 Range(audio_queue) \cup PlayedSinceFlush \cup dropped.overflow
            /\ Range(injected) \cap dropped.flush = {} )
    /\ [][ ( ctx.flush_flag = 1 /\ ctx'.flush_flag = 0 ) =>
             /\ audio_queue' = << >>
             /\ hist.at_flush \subseteq
                  PlayedSinceFlush \cup dropped'.flush \cup dropped.overflow
             /\ injected' = injected ]_vars

\* the flag was set while the pacer was past its test of the flag: one
\* frame of the bytes queued then has been injected, others are still in
\* the queue, and the pacer has seen the flag
C22_Witness ==
    /\ pc = "dflush_cs"
    /\ ctx.flush_flag = 1
    /\ Cardinality(hist.at_flush \cap Range(injected)) = ctx.session_frame_bytes
    /\ hist.at_flush \cap Range(audio_queue) # {}

\* ------------------------------------------------------------ C23
\* no frame has been read from the queue since an injection failed
AfterFailedInject == hist.pace \in {"failed", "received"}

\* the push of a chunk to the queue
Push == pc = "enq_cs" /\ pc' = "drain"

FlagSet == api_pc = "f_lock" /\ api_pc' = "idle"

\* C24: every step of the flush command that sets the flag leaves a flush
\* to serve, whatever was cleared before it; a flush is served only by a
\* step that empties the queue and leaves the flag clear, in a critical
\* section; and the flag is clear only when no flush is left to serve.
C24_NoLostFlush ==
    /\ [] ( ctx.flush_flag = 0 => ~hist.unserved )
    /\ [][ /\ FlagSet => ctx'.flush_flag = 1 /\ hist'.unserved
           /\ ( hist.unserved /\ ~hist'.unserved ) =>
                /\ ~FlagSet
                /\ mutex = NULL
                /\ audio_queue' = << >>
                /\ ctx'.flush_flag = 0
           /\ ( ctx.flush_flag = 1 /\ ctx'.flush_flag = 0 ) =>
                hist.unserved /\ ~hist'.unserved ]_vars

\* the socket thread saw the flag and is on its way to the mutex; the
\* write-replace callback has taken the flush first and emptied the queue
C24_Witness ==
    /\ pc = "flush_cs"
    /\ ctx.flush_flag = 0
    /\ ~hist.unserved
    /\ hist.last_obs = 0
    /\ dropped.flush # {}
    /\ audio_queue = << >>

\* ------------------------------------------------------------ C25
\* C25: every receive of the socket thread is made on a socket the context
\* still has, and every critical section of the thread on a queue the
\* context still has: the error label of a start whose bug was refused has
\* released neither before the thread uses it.
C25_NoUseAfterErrorPath ==
    [][ /\ ( pc = "recv" /\ pc' # pc ) => ctx.sock # NULL
        /\ ( pc \in ThreadLocked /\ pc' # pc ) => ctx.audio_queue # NULL ]_vars

\* ------------------------------------------------------------ C26
\* the socket thread clears the flag
ThreadObserves == pc \in {"flush_cs", "dflush_cs"} /\ pc' # pc

\* C26: each time the socket thread clears the flag it sets the deadline to
\* the time of that step plus the discard window, which is never earlier
\* than the deadline it replaces; the deadline is changed by these steps
\* and by the discard check of the thread, which only sets it to 0 once it
\* has passed, and by no other step; so the deadline is 0 or the time of
\* the last flush the thread observed plus the window, and a chunk that
\* comes to the discard check before that time is dropped.
C26_RearmedByLatestFlush ==
    /\ [] ( /\ ctx.discard_until \in
                 {0, hist.last_obs + GEMINI_DISCARD_DURATION_US}
            /\ hist.last_obs = 0 => ctx.discard_until = 0 )
    /\ [][ /\ ThreadObserves =>
                /\ ctx'.discard_until = now + GEMINI_DISCARD_DURATION_US
                /\ ctx'.discard_until >= ctx.discard_until
                /\ hist'.last_obs = now
           /\ ctx'.discard_until # ctx.discard_until =>
                \/ ThreadObserves
                \/ /\ pc = "chk_discard" /\ pc' = "enq_cs"
                   /\ ctx'.discard_until = 0
                   /\ now >= ctx.discard_until
           /\ ( /\ pc = "chk_discard" /\ pc' # pc
                /\ hist.last_obs > 0
                /\ now < hist.last_obs + GEMINI_DISCARD_DURATION_US ) =>
                /\ pc' = "loop"
                /\ Range(chunk) \subseteq dropped'.discard
                /\ audio_queue' = audio_queue
                /\ ctx' = ctx ]_vars

\* the socket thread has cleared a flag inside the window of an earlier
\* flush: the deadline is the time of this second observation plus the
\* window
C26_Witness ==
    /\ hist.rearmed
    /\ hist.last_obs > TickUs
    /\ ctx.discard_until = hist.last_obs + GEMINI_DISCARD_DURATION_US
    /\ ctx.flush_flag = 0

====
